---------------------------- MODULE Spec2Model ----------------------------
(***************************************************************************)
(* Model of the SIP-reminder allocation pipeline (CSS strategy v4.3):      *)
(* MarketDataService (three-tier quote / history / VIX fetchers),          *)
(* FearGreedService, CSSService and PortfolioAllocationEngine.             *)
(*                                                                         *)
(* Number conventions (all arithmetic is exact integer arithmetic):        *)
(*   - VIX values are in tenths (18.5 is 185);                             *)
(*   - indicator scores are whole points, weights are in thousandths, so   *)
(*     a weighted composite is in thousandths of a point;                  *)
(*   - multipliers are in tenths (0.5 is 5, 1.2 is 12);                    *)
(*   - base percentages are in 1/70 of a percent, so that 17.5%, 7.5% and  *)
(*     the equal share 100/7 % are all integers (25% is 1750);             *)
(*   - money before rounding is in 1/70000 of a currency unit, money after *)
(*     Math.round is in whole currency units;                              *)
(*   - MA50 deviation is in hundredths of a percent, slope in 1/10000.     *)
(* A JavaScript value that may fail to be a number is a record             *)
(* [t |-> "num" | "nan" | "null" | "undef", v |-> Int].                    *)
(***************************************************************************)
EXTENDS Integers, Sequences, FiniteSets, TLC

\* ------------------------------------------------------------------ bounds
MaxAssets == 2

\* ------------------------------------------------------ JavaScript values
Num(x) == [t |-> "num", v |-> x]
NaNVal == [t |-> "nan", v |-> 0]
NullVal == [t |-> "null", v |-> 0]
PosInfinity == [t |-> "inf", v |-> 1]
NegInfinity == [t |-> "inf", v |-> -1]
UndefVal == [t |-> "undef", v |-> 0]

\* typeof x === 'number' (NaN is a number for typeof)
IsTypeofNumber(x) == x.t \in {"num", "nan"}

\* Math.round on a non-negative or negative scaled integer: round half up
RoundDiv(x, d) == (2 * x + d) \div (2 * d)

MinOf(S) == CHOOSE x \in S : \A y \in S : x <= y

\* ------------------------------------------------------- threshold tables
BASE_ALLOCATIONS ==
  [QQQ |-> 1750, GOOG |-> 1225, AIQ |-> 1050, TSLA |-> 525,
   XLV |-> 700, VXUS |-> 700, TLT |-> 1050]

CSS_WEIGHTS ==
  [VIX |-> 200, RSI |-> 300, BB_WIDTH |-> 150, MA50 |-> 200, FEAR_GREED |-> 150]

\* variant: the sentiment weight goes to VIX alone
CSS_WEIGHTS_FG_FALLBACK_vixOnly ==
  [VIX |-> 350, RSI |-> 300, BB_WIDTH |-> 150, MA50 |-> 200, FEAR_GREED |-> 0]

CSS_WEIGHTS_FG_FALLBACK ==
  [VIX |-> 275, RSI |-> 375, BB_WIDTH |-> 150, MA50 |-> 200, FEAR_GREED |-> 0]

\* variant: the slope adjustment already applies below -5%
MA50_SLOPE_CONFIG_wideZone ==
  [STRONG_UPTREND |-> 100, MODERATE_UPTREND |-> 30, FLAT_THRESHOLD |-> -30,
   MODERATE_DOWNTREND |-> -100,
   BONUS_STRONG_UP |-> 15, BONUS_MODERATE_UP |-> 8, BONUS_FLAT |-> 0,
   BONUS_MODERATE_DOWN |-> -8, BONUS_STRONG_DOWN |-> -15,
   APPLY_WHEN_DISCOUNT_BELOW |-> -500,
   MIN_SCORE |-> 20, MAX_SCORE |-> 90]

MA50_SLOPE_CONFIG ==
  [STRONG_UPTREND |-> 100, MODERATE_UPTREND |-> 30, FLAT_THRESHOLD |-> -30,
   MODERATE_DOWNTREND |-> -100,
   BONUS_STRONG_UP |-> 15, BONUS_MODERATE_UP |-> 8, BONUS_FLAT |-> 0,
   BONUS_MODERATE_DOWN |-> -8, BONUS_STRONG_DOWN |-> -15,
   APPLY_WHEN_DISCOUNT_BELOW |-> -1000,
   MIN_SCORE |-> 20, MAX_SCORE |-> 90]

BUDGET_CONSTRAINTS ==
  [MIN_MULTIPLIER |-> 5, MAX_MULTIPLIER |-> 12,
   BASE_BUDGET |-> 250, MIN_BUDGET |-> 125, MAX_BUDGET |-> 300]

\* an entry {max, out}; inf marks an upper bound of Infinity
Row(m, o) == [max |-> m, inf |-> FALSE, out |-> o]
RowInf(o) == [max |-> 0, inf |-> TRUE, out |-> o]

CSS_TO_MULTIPLIER ==
  << Row(20000, 5), Row(35000, 6), Row(50000, 8), Row(60000, 10),
     Row(75000, 12), Row(100000, 12) >>

VIX_SCORE_THRESHOLDS ==
  << Row(150, 20), Row(200, 40), Row(250, 60), Row(300, 75), Row(400, 90),
     RowInf(100) >>

RSI_SCORE_THRESHOLDS ==
  << Row(30, 100), Row(40, 80), Row(50, 60), Row(60, 40), Row(70, 20),
     RowInf(0) >>

BB_WIDTH_SCORE_THRESHOLDS ==
  << Row(5, 30), Row(10, 50), Row(15, 70), RowInf(90) >>

MA50_SCORE_THRESHOLDS ==
  << Row(-1000, 90), Row(-500, 70), Row(500, 50), Row(1000, 30), RowInf(10) >>

FEAR_GREED_SCORE_THRESHOLDS ==
  << Row(25, 100), Row(45, 75), Row(55, 50), Row(75, 25), Row(100, 0) >>

\* for (const t of table) if (x <= t.max) return t.out;  return dflt;
\* x is a JavaScript value: every comparison with NaN / undefined is false
ScanTable(table, x, dflt) ==
  LET hits == { i \in DOMAIN table :
                  x.t = "num" /\ (table[i].inf \/ x.v <= table[i].max) }
  IN IF hits = {} THEN dflt ELSE table[MinOf(hits)].out

\* ------------------------------------------------------------ CSSService
calculateVIXScore(vix) == ScanTable(VIX_SCORE_THRESHOLDS, Num(vix), 100)

calculateRSIScore(rsi) == ScanTable(RSI_SCORE_THRESHOLDS, Num(rsi), 0)

calculateBBWidthScore(bbWidth) ==
  ScanTable(BB_WIDTH_SCORE_THRESHOLDS, Num(bbWidth), 90)

\* priceVsMA50Percent is a JavaScript value (NaN when the price is missing)
calculateMA50Score(priceVsMA50Percent) ==
  ScanTable(MA50_SCORE_THRESHOLDS, priceVsMA50Percent, 10)

calculateMA50SlopeBonus(ma50Slope) ==
  IF ma50Slope > MA50_SLOPE_CONFIG.STRONG_UPTREND
    THEN MA50_SLOPE_CONFIG.BONUS_STRONG_UP
  ELSE IF ma50Slope > MA50_SLOPE_CONFIG.MODERATE_UPTREND
    THEN MA50_SLOPE_CONFIG.BONUS_MODERATE_UP
  ELSE IF ma50Slope > MA50_SLOPE_CONFIG.FLAT_THRESHOLD
    THEN MA50_SLOPE_CONFIG.BONUS_FLAT
  ELSE IF ma50Slope > MA50_SLOPE_CONFIG.MODERATE_DOWNTREND
    THEN MA50_SLOPE_CONFIG.BONUS_MODERATE_DOWN
  ELSE MA50_SLOPE_CONFIG.BONUS_STRONG_DOWN

ClampTo(lo, hi, x) == IF x < lo THEN lo ELSE IF x > hi THEN hi ELSE x

\* variant: the adjusted score is left unclamped
calculateMA50ScoreWithSlope_noClamp(priceVsMA50Percent, ma50Slope) ==
  LET baseScore == calculateMA50Score(priceVsMA50Percent)
      inZone == priceVsMA50Percent.t = "num"
                /\ priceVsMA50Percent.v < MA50_SLOPE_CONFIG.APPLY_WHEN_DISCOUNT_BELOW
      slopeBonus == IF inZone THEN calculateMA50SlopeBonus(ma50Slope) ELSE 0
  IN [baseScore |-> baseScore,
      adjustedScore |-> baseScore + slopeBonus,
      slopeBonus |-> slopeBonus]

calculateMA50ScoreWithSlope(priceVsMA50Percent, ma50Slope) ==
  LET baseScore == calculateMA50Score(priceVsMA50Percent)
      inZone == priceVsMA50Percent.t = "num"
                /\ priceVsMA50Percent.v < MA50_SLOPE_CONFIG.APPLY_WHEN_DISCOUNT_BELOW
      slopeBonus == IF inZone THEN calculateMA50SlopeBonus(ma50Slope) ELSE 0
  IN [baseScore |-> baseScore,
      adjustedScore |->
        IF inZone
          THEN ClampTo(MA50_SLOPE_CONFIG.MIN_SCORE, MA50_SLOPE_CONFIG.MAX_SCORE,
                       baseScore + slopeBonus)
          ELSE baseScore,
      slopeBonus |-> slopeBonus]

\* fearGreedIndex is a JavaScript number here (possibly NaN)
calculateFearGreedScore(fearGreedIndex) ==
  ScanTable(FEAR_GREED_SCORE_THRESHOLDS, fearGreedIndex, 0)

\* ((currentPrice - ma50) / ma50) * 100, in hundredths of a percent; the
\* prices of the model are chosen so that the division is exact
calculateMA50Deviation(currentPrice, ma50) ==
  IF ma50 = 0 THEN Num(0)
  ELSE IF currentPrice.t # "num" THEN NaNVal
  ELSE Num(((currentPrice.v - ma50) * 10000) \div ma50)

\* variant: a score above every row falls back to the minimum multiplier
cssToMultiplier_defaultMin(css) ==
  ScanTable(CSS_TO_MULTIPLIER, Num(css), BUDGET_CONSTRAINTS.MIN_MULTIPLIER)

\* css in thousandths of a point
cssToMultiplier(css) ==
  ScanTable(CSS_TO_MULTIPLIER, Num(css), BUDGET_CONSTRAINTS.MAX_MULTIPLIER)


\* technicalIndicators = [rsi, bbWidth, ma50, ma50Slope, dataSource];
\* fearGreedIndex is NullVal or a JavaScript number; currentPrice a JS value
calculateCSSBreakdown(vix, fearGreedIndex, technicalIndicators, currentPrice) ==
  LET fearGreedFailed == fearGreedIndex.t = "null"
      vixScore == calculateVIXScore(vix)
      rsiScore == calculateRSIScore(technicalIndicators.rsi)
      bbWidthScore == calculateBBWidthScore(technicalIndicators.bbWidth)
      ma50Deviation == calculateMA50Deviation(currentPrice, technicalIndicators.ma50)
      ma50SlopeResult ==
        calculateMA50ScoreWithSlope(ma50Deviation, technicalIndicators.ma50Slope)
      fearGreedScore ==
        IF fearGreedFailed THEN NullVal
        ELSE Num(calculateFearGreedScore(fearGreedIndex))
      weights == IF fearGreedFailed THEN CSS_WEIGHTS_FG_FALLBACK ELSE CSS_WEIGHTS
      rawCSS == vixScore * weights.VIX
                + rsiScore * weights.RSI
                + bbWidthScore * weights.BB_WIDTH
                + ma50SlopeResult.adjustedScore * weights.MA50
                + (IF fearGreedScore.t = "null" THEN 0 ELSE fearGreedScore.v)
                    * weights.FEAR_GREED
      totalCSS == ClampTo(0, 100000, rawCSS)
  IN [vixScore |-> vixScore,
      rsiScore |-> rsiScore,
      bbWidthScore |-> bbWidthScore,
      ma50Score |-> ma50SlopeResult.baseScore,
      ma50ScoreAdjusted |-> ma50SlopeResult.adjustedScore,
      fearGreedScore |-> fearGreedScore,
      ma50DeviationPercent |-> ma50Deviation,
      ma50SlopeBonus |-> ma50SlopeResult.slopeBonus,
      fearGreedValue |-> fearGreedIndex,
      totalCSS |-> RoundDiv(totalCSS, 10),      \* hundredths of a point
      multiplier |-> Num(cssToMultiplier(totalCSS)),
      fearGreedFailed |-> fearGreedFailed,
      weightsAdjusted |-> fearGreedFailed]

\* result in sevenths of a point:
\* ((vixScore*0.20 + fgScore*0.15) / 0.35) * 100  =  (4*vixScore + 3*fgScore)*100/7
calculateMarketCSS(vix, fearGreedIndex) ==
  LET vixScore == calculateVIXScore(vix)
  IN IF fearGreedIndex.t = "null" THEN 7 * vixScore
     ELSE ((vixScore * CSS_WEIGHTS.VIX
            + calculateFearGreedScore(fearGreedIndex) * CSS_WEIGHTS.FEAR_GREED)
           * 100 * 7) \div (CSS_WEIGHTS.VIX + CSS_WEIGHTS.FEAR_GREED)

\* ------------------------------------------------------ FearGreedService
\* Math.round of a score given in tenths; null rounds to 0, undefined and
\* NaN round to NaN
MathRoundTenths(x) ==
  IF x.t = "num" THEN Num(RoundDiv(x.v, 10))
  ELSE IF x.t = "null" THEN Num(0) ELSE NaNVal

\* data = [shape, score]: the body of the HTTP response.  The result is
\* [found |-> FALSE] for null, else [found |-> TRUE, value |-> ...]
parseResponse(data) ==
  IF data.shape = "fear_and_greed_null"
    THEN [found |-> FALSE, value |-> NullVal]      \* TypeError, caught: null
  ELSE IF data.shape = "fear_and_greed" /\ IsTypeofNumber(data.score)
    THEN [found |-> TRUE, value |-> MathRoundTenths(data.score)]
  ELSE IF data.shape \in {"array_xy", "score", "fear_and_greed_historical"}
    THEN [found |-> TRUE, value |-> MathRoundTenths(data.score)]
  ELSE [found |-> FALSE, value |-> NullVal]

\* variant: the sentiment fetch without its catch block
fetchFearGreedIndex_noCatch(http, data) ==
  LET parsed == parseResponse(data)
  IN IF http # "ok" THEN [status |-> "throw", value |-> NullVal, success |-> FALSE]
     ELSE IF parsed.found
       THEN [status |-> "return", value |-> parsed.value, success |-> TRUE]
     ELSE [status |-> "throw", value |-> NullVal, success |-> FALSE]

\* http = "ok" | "error" | "timeout"; returns [status, value]
\* where status is "return" or "throw"
fetchFearGreedIndex(http, data) ==
  LET parsed == parseResponse(data)
      tryBody ==
        IF http # "ok" THEN [status |-> "throw", value |-> NullVal, success |-> FALSE]
        ELSE IF parsed.found
          THEN [status |-> "return", value |-> parsed.value, success |-> TRUE]
        ELSE [status |-> "throw", value |-> NullVal, success |-> FALSE]
  IN IF tryBody.status = "throw"
       THEN [status |-> "return", value |-> Num(50), success |-> FALSE]
       ELSE tryBody

\* ----------------------------------------------------- MarketDataService
\* symbol.charCodeAt(i) for the symbols of the model
CharCodes(symbol) ==
  CASE symbol = "^VIX" -> <<94, 86, 73, 88>>
    [] symbol = "QQQ" -> <<81, 81, 81>>
    [] symbol = "GOOG" -> <<71, 79, 79, 71>>
    [] symbol = "TSLA" -> <<84, 83, 76, 65>>
    [] symbol = "ZZZ" -> <<90, 90, 90>>
    [] symbol = "AIQ" -> <<65, 73, 81>>
    [] symbol = "TLT" -> <<84, 76, 84>>

\* The 32-bit pattern of the hash is kept as two 16-bit halves [hi, lo].
\* hash = ((hash << 5) - hash) + code; hash = hash & hash
\* is hash * 31 + code wrapped to 32 bits
HashStep(h, code) ==
  LET low == h.lo * 31 + code
  IN [hi |-> (h.hi * 31 + (low \div 65536)) % 65536, lo |-> low % 65536]

RECURSIVE HashFrom(_, _, _)
HashFrom(codes, i, h) ==
  IF i > Len(codes) THEN h ELSE HashFrom(codes, i + 1, HashStep(h, codes[i]))

hashBits(symbol) == HashFrom(CharCodes(symbol), 1, [hi |-> 0, lo |-> 0])

\* Math.abs(hash) % m for 0 < m <= 1000, hash read as a signed 32-bit
\* integer: a pattern with the top bit set is negative, its absolute value
\* is 2^32 minus the pattern (2^16 % m and 2^32 % m are computed mod m)
hashSymbolMod(symbol, m) ==
  LET h == hashBits(symbol)
      p16 == 65536 % m
      u == ((h.hi % m) * p16 + h.lo) % m
  IN IF h.hi >= 32768 THEN (((p16 * p16) % m) + m - u) % m ELSE u

getSimulatedData(symbol) ==
  [price |-> Num(100 + hashSymbolMod(symbol, 400)), dataSource |-> "simulated"]

\* random[k] is the k-th value Math.random() returns, in halves (0 or 1/2):
\*   price = 100 + random[1] * 400, then for each day k
\*   price = price * (0.97 + random[k + 1] * 0.06), pushed to the series.
\* The k-th price of the series is kept exactly, in units of 1/100^k.
RECURSIVE SimulatedWalk(_, _, _, _)
SimulatedWalk(price, random, k, days) ==
  IF k > days THEN << >>
  ELSE LET next == price * (97 + random[k + 1] * 3)
       IN << next >> \o SimulatedWalk(next, random, k + 1, days)

getSimulatedHistoricalData(days, random) ==
  SimulatedWalk(100 + random[1] * 200, random, 1, days)

\* variant: the direct HTTP call without its catch block
fetchStockDataAxios_noCatch(symbol, secondary) ==
  IF secondary.kind = "ok"
    THEN [status |-> "return",
          value |-> [price |-> Num(secondary.price),
                     dataSource |-> "axios-fallback"]]
  ELSE IF secondary.kind = "no_price"
    THEN [status |-> "return",
          value |-> [price |-> UndefVal, dataSource |-> "axios-fallback"]]
  ELSE [status |-> "throw", value |-> [price |-> UndefVal, dataSource |-> "none"]]

\* secondary = [kind, price]: what the direct HTTP call produced
\*   "ok"         a chart result whose meta carries a numeric price
\*   "no_price"   a chart result whose meta has no regularMarketPrice
\*   "no_meta"    a chart result without meta / indicators (TypeError)
\*   "malformed"  no chart.result[0] (validateChartResponse fails)
\*   "error"      network error
fetchStockDataAxios(symbol, secondary) ==
  LET tryBody ==
        IF secondary.kind = "ok"
          THEN [status |-> "return",
                value |-> [price |-> Num(secondary.price),
                           dataSource |-> "axios-fallback"]]
        ELSE IF secondary.kind = "no_price"
          THEN [status |-> "return",
                value |-> [price |-> UndefVal, dataSource |-> "axios-fallback"]]
        ELSE [status |-> "throw", value |-> [price |-> UndefVal, dataSource |-> "none"]]
  IN IF tryBody.status = "throw"
       THEN [status |-> "return", value |-> getSimulatedData(symbol)]
       ELSE tryBody

\* primary = [kind, price]: what the yahoo-finance2 client produced
\*   "ok"        a quote with a numeric regularMarketPrice
\*   "no_price"  no quote, or regularMarketPrice is not a number
\*   "error"     the client threw
fetchStockData(symbol, primary, secondary) ==
  LET tryBody ==
        IF primary.kind = "ok"
          THEN [status |-> "return",
                value |-> [price |-> Num(primary.price),
                           dataSource |-> "yahoo-finance2"]]
        ELSE [status |-> "throw", value |-> [price |-> UndefVal, dataSource |-> "none"]]
  IN IF tryBody.status = "throw"
       THEN fetchStockDataAxios(symbol, secondary)
       ELSE tryBody


HISTORY_DAYS == 150

\* a price series is represented by its length n
\* primary = [kind, n]: "ok" (n closes after dropping null / undefined),
\*                      "error" (the client threw)
\* secondary = [kind, n]: "ok" (a close array, n closes after dropping null),
\*                        "malformed" (no close array), "error"
fetchHistoricalDataAxios(symbol, days, secondary) ==
  LET tryBody ==
        IF secondary.kind = "ok"
          THEN [status |-> "return",
                value |-> [n |-> secondary.n, source |-> "axios-fallback"]]
        ELSE [status |-> "throw", value |-> [n |-> 0, source |-> "none"]]
  IN IF tryBody.status = "throw"
       THEN [status |-> "return", value |-> [n |-> days, source |-> "simulated"]]
       ELSE tryBody

fetchHistoricalData(symbol, days, primary, secondary) ==
  LET tryBody ==
        IF primary.kind = "ok" /\ primary.n # 0 /\ ~(primary.n < 10)
          THEN [status |-> "return",
                value |-> [n |-> primary.n, source |-> "yahoo-finance2"]]
        ELSE [status |-> "throw", value |-> [n |-> 0, source |-> "none"]]
  IN IF tryBody.status = "throw"
       THEN fetchHistoricalDataAxios(symbol, days, secondary)
       ELSE tryBody

\* variant: the secondary VIX fetch without its catch block
fetchVIXAxios_noCatch(secondary) ==
  LET data == fetchStockDataAxios("^VIX", secondary)
  IN IF data.status = "throw" \/ data.value.price.t \in {"undef", "null"}
       THEN [status |-> "throw", value |-> [vix |-> 0, source |-> "none"]]
     ELSE [status |-> "return",
           value |-> [vix |-> 10 * data.value.price.v, source |-> "axios-fallback"]]

\* data.price.toFixed(2) throws a TypeError when the price is undefined
fetchVIXAxios(secondary) ==
  LET data == fetchStockDataAxios("^VIX", secondary)
      tryBody ==
        IF data.status = "throw" \/ data.value.price.t \in {"undef", "null"}
          THEN [status |-> "throw", value |-> [vix |-> 0, source |-> "none"]]
        ELSE [status |-> "return",
              value |-> [vix |-> 10 * data.value.price.v, source |-> "axios-fallback"]]
  IN IF tryBody.status = "throw"
       THEN [status |-> "return", value |-> [vix |-> 185, source |-> "axios-fallback"]]
       ELSE tryBody

\* primary.price and secondary.price are whole index points
fetchVIX(primary, secondary) ==
  LET tryBody ==
        IF primary.kind = "ok"
          THEN [status |-> "return",
                value |-> [vix |-> 10 * primary.price, source |-> "yahoo-finance2"]]
        ELSE [status |-> "throw", value |-> [vix |-> 0, source |-> "none"]]
  IN IF tryBody.status = "throw" THEN fetchVIXAxios(secondary) ELSE tryBody

\* ----------------------------------------------- PortfolioAllocationEngine
MaxNum(a, b) == IF a > b THEN a ELSE b
MinNum(a, b) == IF a < b THEN a ELSE b

determineMarketCondition(vix) ==
  IF vix < 150 THEN "BULLISH" ELSE IF vix > 250 THEN "BEARISH" ELSE "NEUTRAL"

\* in 1/70 of a percent; 100 / Object.keys(BASE_ALLOCATIONS).length otherwise
getBaseAllocationPercentage(symbol) ==
  IF symbol \in DOMAIN BASE_ALLOCATIONS
    THEN BASE_ALLOCATIONS[symbol]
    ELSE (100 * 70) \div Cardinality(DOMAIN BASE_ALLOCATIONS)

\* isNaN(x): true for NaN and undefined
JsIsNaN(x) == x.t \in {"nan", "undef"}

\* An infinite multiplier passes the isNaN guard: baseAmount * (+-Infinity)
\* is +-Infinity (NaN when baseAmount is 0), Math.min(maxForAsset, Infinity)
\* is maxForAsset and Math.max(minForAsset, -Infinity) is minForAsset.  The
\* result keeps amount and multiplier as integers: amountIsNaN tells that the
\* amount is NaN (amount is then 0), multiplierInfinite is the sign of an
\* infinite multiplier (multiplier is then 0) and 0 for a finite one.
calculateSingleAllocation(analysis, baseBudget, minBudget, maxBudget) ==
  LET basePercentage == getBaseAllocationPercentage(analysis.symbol)
      baseAmount == baseBudget * basePercentage * 10
      given == analysis.cssBreakdown.multiplier
      infinite == given.t = "inf"
      multiplier == IF JsIsNaN(given) THEN 10
                    ELSE IF infinite THEN 0 ELSE given.v
      rawSign == IF baseAmount > 0 THEN given.v
                 ELSE IF baseAmount < 0 THEN 0 - given.v ELSE 0
      rawAmount == baseBudget * basePercentage * multiplier
      minForAsset == minBudget * basePercentage * 10
      maxForAsset == maxBudget * basePercentage * 10
      clamped ==
        IF ~infinite THEN MaxNum(minForAsset, MinNum(maxForAsset, rawAmount))
        ELSE IF rawSign > 0 THEN MaxNum(minForAsset, maxForAsset)
        ELSE IF rawSign < 0 THEN minForAsset
        ELSE 0
  IN [symbol |-> analysis.symbol,
      amount |-> RoundDiv(clamped, 70000),
      amountIsNaN |-> infinite /\ rawSign = 0,
      baseAmount |-> RoundDiv(baseAmount, 70000),
      cssScore |-> analysis.cssBreakdown.totalCSS,
      multiplier |-> multiplier,
      multiplierInfinite |-> IF infinite THEN given.v ELSE 0]

\* Array.prototype.sort((a, b) => b.amount - a.amount): stable, descending
RECURSIVE InsertByAmount(_, _)
InsertByAmount(sorted, a) ==
  IF sorted = << >> THEN << a >>
  ELSE IF Head(sorted).amount >= a.amount
    THEN << Head(sorted) >> \o InsertByAmount(Tail(sorted), a)
    ELSE << a >> \o sorted

RECURSIVE SortByAmountDesc(_)
\* variant: the allocations are returned in the order they were pushed
SortByAmountDesc_unsorted(list) == list

SortByAmountDesc(list) ==
  IF list = << >> THEN << >>
  ELSE InsertByAmount(SortByAmountDesc(SubSeq(list, 1, Len(list) - 1)),
                      list[Len(list)])

\* variant: the base budget is shared out among the analyses that survived
calculateAllocations_shared(analyses, baseBudget, minBudget, maxBudget) ==
  SortByAmountDesc(
    [k \in 1..Len(analyses) |->
       calculateSingleAllocation(analyses[k], (2 * baseBudget) \div Len(analyses),
                                 minBudget, maxBudget)])

calculateAllocations(analyses, baseBudget, minBudget, maxBudget) ==
  SortByAmountDesc(
    [k \in 1..Len(analyses) |->
       calculateSingleAllocation(analyses[k], baseBudget, minBudget, maxBudget)])

RECURSIVE SumAmounts(_)
SumAmounts(list) ==
  IF list = << >> THEN 0 ELSE Head(list).amount + SumAmounts(Tail(list))

\* variant: the report's total is the configured base budget
totalAmountOf_baseBudget(allocations, baseBudget) == baseBudget

\* allocations.reduce((sum, a) => sum + a.amount, 0)
totalAmountOf(allocations, baseBudget) == SumAmounts(allocations)


\* TechnicalAnalysisService on a series of n closes.  The values that depend
\* on the content of the series come from shape (what the series looks like);
\* the ones fixed by its length are computed.
\* libraryFails: a technicalindicators call threw or returned no number

\* the library call and the check of its result inside the try block: fewer
\* closes than the calculation needs yield an empty result, and the function
\* throws 'Invalid ... result from library'
libraryCalculate(n, required, value, libraryFails) ==
  IF libraryFails \/ n < required THEN [status |-> "throw"]
  ELSE [status |-> "return", value |-> value]

\* variant: the library is called without the try/catch around it
calculateWithSource_noCatch(library, custom) ==
  IF library.status = "throw" THEN library
  ELSE [status |-> "return", value |-> library.value,
        source |-> "technicalindicators"]

\* try { return {value: <library>, source: 'technicalindicators'} }
\* catch { return {value: <custom>, source: 'custom-fallback'} }
calculateWithSource(library, custom) ==
  IF library.status = "throw"
    THEN [status |-> "return", value |-> custom, source |-> "custom-fallback"]
    ELSE [status |-> "return", value |-> library.value,
          source |-> "technicalindicators"]

\* if (prices.length < period + 1) return 50
calculateRSICustom(n, shape) == IF n < 15 THEN 50 ELSE shape.rsi

\* 0 for an empty series, else the average of the closes there are
calculateSMACustom(n, value) == IF n = 0 THEN 0 ELSE value

\* fewer than 20 closes: +-5% around (last price || 100), a width of 10
calculateBollingerBandsCustom(n, shape) == IF n < 20 THEN 10 ELSE shape.bbWidth

\* if (prices.length < 2) return 0
calculateATRCustom(n, shape) == IF n < 2 THEN 0 ELSE shape.atr

\* minRequired = lookbackDays + 50; shorter series give 0, longer ones the
\* relative change between two calculateSMA results
calculateMA50Slope(n, sma, shape) ==
  IF n < 100 THEN [status |-> "return", value |-> 0]
  ELSE IF sma.status = "throw" THEN sma
  ELSE [status |-> "return", value |-> shape.ma50Slope]

calculateIndicators(n, shape, libraryFails) ==
  LET bbResult ==
        calculateWithSource(libraryCalculate(n, 20, shape.bbWidth, libraryFails),
                            calculateBollingerBandsCustom(n, shape))
      ma20Result ==
        calculateWithSource(libraryCalculate(n, 20, shape.ma20, libraryFails),
                            calculateSMACustom(n, shape.ma20))
      ma50Result ==
        calculateWithSource(libraryCalculate(n, 50, shape.ma50, libraryFails),
                            calculateSMACustom(n, shape.ma50))
      ma50Slope == calculateMA50Slope(n, ma50Result, shape)
      atrResult ==
        calculateWithSource(libraryCalculate(n, 15, shape.atr, libraryFails),
                            calculateATRCustom(n, shape))
      rsiResult ==
        calculateWithSource(libraryCalculate(n, 15, shape.rsi, libraryFails),
                            calculateRSICustom(n, shape))
      results == {bbResult, ma20Result, ma50Result, ma50Slope, atrResult,
                  rsiResult}
      usedFallback ==
        \E r \in {bbResult, ma20Result, ma50Result, atrResult, rsiResult} :
          r.source = "custom-fallback"
  IN IF \E r \in results : r.status = "throw" THEN [status |-> "throw"]
     ELSE [status |-> "return",
           rsi |-> rsiResult.value,
           bbWidth |-> bbResult.value,
           atr |-> atrResult.value,
           ma20 |-> ma20Result.value,
           ma50 |-> ma50Result.value,
           ma50Slope |-> ma50Slope.value,
           dataSource |-> IF usedFallback THEN "custom-fallback"
                          ELSE "technicalindicators"]

NoAnalysis == [ok |-> FALSE, failedAt |-> "none"]

\* variant: .catch substitutes a neutral analysis for the failed one
analyzeStock_placeholder(symbol, vix, fearGreedIndex, quoteResult, histResult, shape, libraryFails, thrown) ==
  LET failed == quoteResult.status = "throw" \/ histResult.status = "throw"
                  \/ thrown # "none"
      technicalIndicators ==
        calculateIndicators(IF failed THEN 0 ELSE histResult.value.n, shape,
                            failed \/ libraryFails)
      marketData ==
        IF failed THEN [price |-> UndefVal, dataSource |-> "simulated",
                        producedBy |-> "synthetic"]
        ELSE quoteResult.value
  IN [ok |-> TRUE,
      failedAt |-> IF quoteResult.status = "throw" \/ histResult.status = "throw"
                     THEN "fetch" ELSE thrown,
      symbol |-> symbol,
      marketData |-> marketData,
      technicalIndicators |-> technicalIndicators,
      cssBreakdown |->
        calculateCSSBreakdown(vix, fearGreedIndex, technicalIndicators,
                              marketData.price)]

\* analyzeStock followed by the .then / .catch of analyzeStocks.
\* quoteResult, histResult: [status, value] of the two awaited fetches;
\* thrown: the step of the synchronous part that raises ("none" if none)
\* passed: the steps completed, in the order of the statements, before the
\* function returned or threw
analyzeStock(symbol, vix, fearGreedIndex, quoteResult, histResult, shape, libraryFails, thrown) ==
  IF quoteResult.status = "throw" \/ histResult.status = "throw"
    THEN [ok |-> FALSE, failedAt |-> "fetch", passed |-> << >>]
  ELSE IF thrown = "indicators"
    THEN [ok |-> FALSE, failedAt |-> thrown, passed |-> << "DataFetched" >>]
  ELSE IF thrown # "none"
    THEN [ok |-> FALSE, failedAt |-> thrown,
          passed |-> << "DataFetched", "IndicatorsComputed" >>]
  ELSE
    LET technicalIndicators ==
          calculateIndicators(histResult.value.n, shape, libraryFails)
    IN [ok |-> TRUE,
        failedAt |-> "none",
        passed |-> << "DataFetched", "IndicatorsComputed", "Scored" >>,
        symbol |-> symbol,
        marketData |-> quoteResult.value,
        technicalIndicators |-> technicalIndicators,
        cssBreakdown |->
          calculateCSSBreakdown(vix, fearGreedIndex, technicalIndicators,
                                quoteResult.value.price)]

\* results.filter(a => a !== null), in the order of the configured symbols
RECURSIVE FilterOk(_)
FilterOk(results) ==
  IF results = << >> THEN << >>
  ELSE (IF Head(results).ok THEN << Head(results) >> ELSE << >>)
       \o FilterOk(Tail(results))

\* variant: one failed analysis empties the whole result
analyzeStocks_allOrNothing(results) ==
  IF \E k \in 1..Len(results) : ~results[k].ok THEN << >>
  ELSE FilterOk(results)

analyzeStocks(results) == FilterOk(results)


generateRecommendations(analyses, vix, marketCondition, fearGreedResponse, dataSourceStatus) ==
  LET IsHigh(a) == a.cssBreakdown.totalCSS >= 6000
      IsLow(a) == a.cssBreakdown.totalCSS <= 3500
      IsOversold(a) == a.technicalIndicators.rsi < 30
      IsDiscount(a) == a.cssBreakdown.ma50DeviationPercent.t = "num"
                       /\ a.cssBreakdown.ma50DeviationPercent.v < -500
      When(c, msg) == IF c THEN << msg >> ELSE << >>
  IN When(dataSourceStatus.marketDataSource = "axios-fallback",
          "WARN_MARKET_DATA_AXIOS_FALLBACK")
     \o When(dataSourceStatus.indicatorSource = "custom-fallback",
             "WARN_INDICATORS_CUSTOM_FALLBACK")
     \o (IF ~fearGreedResponse.success
           THEN << "WARN_FEAR_GREED_FAILED" >> ELSE << "FEAR_GREED_VALUE" >>)
     \o (IF marketCondition = "BEARISH" THEN << "HIGH_VOLATILITY_MARKET" >>
         ELSE IF marketCondition = "BULLISH" THEN << "LOW_VOLATILITY_MARKET" >>
         ELSE << >>)
     \o (IF vix > 300 THEN << "VIX_ELEVATED" >>
         ELSE IF vix < 150 THEN << "VIX_COMPLACENT" >> ELSE << >>)
     \o When((\E k \in 1..Len(analyses) : IsHigh(analyses[k])), "HIGH_CSS_OPPORTUNITIES")
     \o When((\E k \in 1..Len(analyses) : IsLow(analyses[k])), "LOWER_ALLOCATION")
     \o When((\E k \in 1..Len(analyses) : IsOversold(analyses[k])), "OVERSOLD")
     \o When((\E k \in 1..Len(analyses) : IsDiscount(analyses[k])), "DISCOUNTED")
     \o << "BUDGET_RANGE", "CSS_VERSION" >>

\* the synchronous tail of generateAllocation, once analyzeStocks resolved
buildReport(cfg, vixRes, fearGreedResponse, results) ==
  LET vix == vixRes.vix
      fearGreedIndex ==
        IF fearGreedResponse.success THEN fearGreedResponse.value ELSE NullVal
      analyses == analyzeStocks(results)
      IsCustom(a) == a.technicalIndicators.dataSource = "custom-fallback"
      IsSimulated(a) == a.marketData.dataSource = "simulated"
      IsAxios(a) == a.marketData.dataSource = "axios-fallback"
      dataSourceStatus ==
        [indicatorSource |->
           IF (\E k \in 1..Len(analyses) : IsCustom(analyses[k])) THEN "custom-fallback"
           ELSE "technicalindicators",
         marketDataSource |->
           IF (\E k \in 1..Len(analyses) : IsSimulated(analyses[k])) THEN "simulated"
           ELSE IF (\E k \in 1..Len(analyses) : IsAxios(analyses[k])) THEN "axios-fallback"
           ELSE "yahoo-finance2"]
      allocations ==
        calculateAllocations(analyses, cfg.weeklyInvestmentAmount,
                             cfg.minBudget, cfg.maxBudget)
      marketCondition == determineMarketCondition(vix)
  IN [totalAmount |-> totalAmountOf(allocations, cfg.weeklyInvestmentAmount),
      baseBudget |-> cfg.weeklyInvestmentAmount,
      minBudget |-> cfg.minBudget,
      maxBudget |-> cfg.maxBudget,
      vix |-> vix,
      fearGreedIndex |-> fearGreedIndex,
      fearGreedFailed |-> ~fearGreedResponse.success,
      marketCSS |-> calculateMarketCSS(vix, fearGreedIndex),
      marketCondition |-> marketCondition,
      allocations |-> allocations,
      recommendations |->
        generateRecommendations(analyses, vix, marketCondition,
                                fearGreedResponse, dataSourceStatus),
      dataSourceStatus |-> dataSourceStatus]


\* ------------------------------------------------------------ input sets
SymbolPool == << "QQQ", "GOOG", "ZZZ", "TSLA" >>

\* base budget with minBudget = 0.5 x and maxBudget = 1.2 x base
BudgetConfigs ==
  { [weeklyInvestmentAmount |-> 250, minBudget |-> 125, maxBudget |-> 300] }

Outcome(k, p) == [kind |-> k, price |-> p]
Series(k, len) == [kind |-> k, n |-> len]

\* the secondary tier is only called when the primary tier failed
Attempts(primaries, secondaries, notCalled) ==
  { [primary |-> p, secondary |-> notCalled] : p \in { x \in primaries : x.kind = "ok" } }
  \cup
  { [primary |-> p, secondary |-> q] :
      p \in { x \in primaries : x.kind # "ok" }, q \in secondaries }

VixAttempts ==
  Attempts({ Outcome("ok", 12), Outcome("error", 0), Outcome("no_price", 0) },
           { Outcome("ok", 45), Outcome("no_price", 0), Outcome("no_meta", 0),
             Outcome("malformed", 0), Outcome("error", 0) },
           Outcome("not_called", 0))

QuoteAttempts ==
  Attempts({ Outcome("ok", 85), Outcome("error", 0), Outcome("no_price", 0) },
           { Outcome("ok", 85), Outcome("no_price", 0), Outcome("no_meta", 0),
             Outcome("malformed", 0), Outcome("error", 0) },
           Outcome("not_called", 0))

\* a primary series of fewer than 10 closes counts as a failed primary tier
HistoryAttempts ==
  { [primary |-> Series("ok", 150), secondary |-> Series("not_called", 0)] }
  \cup
  { [primary |-> p, secondary |-> q] :
      p \in { Series("ok", 5), Series("ok", 0), Series("error", 0) },
      q \in { Series("ok", 150), Series("malformed", 0), Series("error", 0) } }

\* the HTTP call and the body it returned (scores in tenths of a point)
FearGreedCalls ==
  { [http |-> "error", body |-> [shape |-> "unknown", score |-> UndefVal]],
    [http |-> "timeout", body |-> [shape |-> "unknown", score |-> UndefVal]],
    [http |-> "ok", body |-> [shape |-> "unknown", score |-> UndefVal]],
    [http |-> "ok", body |-> [shape |-> "fear_and_greed", score |-> UndefVal]],
    [http |-> "ok", body |-> [shape |-> "fear_and_greed", score |-> Num(104)]],
    [http |-> "ok", body |-> [shape |-> "array_xy", score |-> UndefVal]] }

\* what the price series looks like and whether the indicator library works:
\* overbought and far above its MA50 with the library working, or oversold,
\* deep below its MA50 and falling with the library failing
IndicatorInputs ==
  { [shape |-> [rsi |-> 80, bbWidth |-> 4, atr |-> 1, ma20 |-> 55,
                 ma50 |-> 50, ma50Slope |-> 0],
     libraryFails |-> FALSE],
    [shape |-> [rsi |-> 25, bbWidth |-> 20, atr |-> 4, ma20 |-> 90,
                 ma50 |-> 100, ma50Slope |-> -200],
     libraryFails |-> TRUE] }

StepThrows == { "indicators", "scoring" }

\* the tier that produced the value, from the outcomes of the two live tiers
ProducedBy(primaryLive, secondaryLive) ==
  IF primaryLive THEN "primary"
  ELSE IF secondaryLive THEN "secondary" ELSE "synthetic"

\* ------------------------------------------------------------------ state
VARIABLES
  config,             \* the Config of the invocation
  pc,                 \* where generateAllocation is
  vixResult,          \* result of fetchVIX
  fearGreedResponse,  \* result of fetchFearGreedIndex
  stage,              \* per asset: "Pending", "Fetching", "Scored", "Excluded"
  quote,              \* per asset: settled result of fetchStockData
  hist,               \* per asset: settled result of fetchHistoricalData
  analysis,           \* per asset: the StockAnalysis, or why there is none
  report,             \* the AllocationReport returned
  lastDataSource,     \* MarketDataService.lastDataSource, one for all calls
  weeklySnapshots,    \* the table weeklySnapshots of the database
  save,               \* per caller: where its saveAnalysisReport call is
  savedLast,          \* per date: the caller whose snapshot was inserted last
  call                \* a direct call of one service function, or NoCall

\* the variables of the database and of the calls that save to it
storeVars == << weeklySnapshots, save, savedLast >>

vars == << config, pc, vixResult, fearGreedResponse, stage, quote, hist,
           analysis, report, call, lastDataSource, weeklySnapshots, save,
           savedLast >>

\* no service function is called on its own
NoCall == [fn |-> "none"]

Unsettled == [status |-> "pending"]
NoReport == [returned |-> FALSE]
Assets == 1..Len(config.defaultStocks)

\* the configuration of the process: the budget range is derived from the
\* base budget, minBudget = 0.5 x and maxBudget = 1.2 x base
getConfig(weeklyInvestmentAmount, stocks) ==
  [weeklyInvestmentAmount |-> weeklyInvestmentAmount,
   minBudget |-> (weeklyInvestmentAmount * 5) \div 10,
   maxBudget |-> (weeklyInvestmentAmount * 12) \div 10,
   defaultStocks |-> stocks]

\* POST /api/analyze: { ...baseConfig, weeklyInvestmentAmount:
\* body.investmentAmount ?? ..., defaultStocks: body.stocks ?? ... };
\* an absent body.stocks is written << >> (the schema rejects an empty list)
analyzeConfig(baseConfig, body) ==
  [weeklyInvestmentAmount |->
     IF body.investmentAmount.t = "undef"
       THEN baseConfig.weeklyInvestmentAmount
       ELSE body.investmentAmount.v,
   minBudget |-> baseConfig.minBudget,
   maxBudget |-> baseConfig.maxBudget,
   defaultStocks |->
     IF body.stocks = << >> THEN baseConfig.defaultStocks ELSE body.stocks]

\* request bodies: no override (as the scheduled run), an override of the
\* amount and of the stock list, and a list of two assets of equal base share
AnalyzeBodies ==
  { [investmentAmount |-> UndefVal, stocks |-> << >>],
    [investmentAmount |-> Num(500), stocks |-> << "QQQ" >>],
    [investmentAmount |-> UndefVal, stocks |-> << "AIQ", "TLT" >>] }

\* validateConfig: the base budget is positive and a symbol is configured
validateConfig(cfg) ==
  ~(cfg.weeklyInvestmentAmount <= 0) /\ ~(Len(cfg.defaultStocks) = 0)

\* configurations validateConfig refuses, handed to generateAllocation as
\* they are: a base budget of 0, and an empty list of symbols
InvalidConfigs ==
  { getConfig(0, << "QQQ" >>), getConfig(250, << >>) }

\* the callers of saveAnalysisReport: the scheduled job, a manual request to
\* the analyze route, and a second manual request
Savers == {"scheduled", "manual", "repeated"}

\* report.date.toISOString().split('T')[0] of the report to save
Dates == {"2025-01-06", "2025-01-13"}

NoSnapshot == [id |-> "none", date |-> "none"]

NotSaving == [pc |-> "idle", date |-> "none", existingSnapshot |-> NoSnapshot,
              result |-> "none"]

\* an empty database and no save under way
StoreIdle ==
  /\ weeklySnapshots = {}
  /\ save = [s \in Savers |-> NotSaving]
  /\ savedLast = [d \in Dates |-> "none"]

Init ==
  /\ \/ \E b \in BudgetConfigs, len \in 1..MaxAssets, body \in AnalyzeBodies :
          /\ getConfig(b.weeklyInvestmentAmount, << >>).minBudget = b.minBudget
          /\ getConfig(b.weeklyInvestmentAmount, << >>).maxBudget = b.maxBudget
          /\ config = analyzeConfig(getConfig(b.weeklyInvestmentAmount,
                                             SubSeq(SymbolPool, 1, len)), body)
     \/ config \in InvalidConfigs
  /\ pc = "idle"
  /\ vixResult = Unsettled
  /\ fearGreedResponse = Unsettled
  /\ stage = [i \in 1..Len(config.defaultStocks) |-> "Pending"]
  /\ quote = [i \in 1..Len(config.defaultStocks) |-> Unsettled]
  /\ hist = [i \in 1..Len(config.defaultStocks) |-> Unsettled]
  /\ analysis = [i \in 1..Len(config.defaultStocks) |-> NoAnalysis]
  /\ report = NoReport
  /\ lastDataSource = "yahoo-finance2"
  /\ call = NoCall
  /\ StoreIdle

\* generateAllocation is called: the VIX fetch is started
Invoke ==
  /\ pc = "idle"
  /\ pc' = "awaitVIX"
  /\ UNCHANGED << call, config, vixResult, fearGreedResponse, stage, quote, hist,
                  analysis, report, lastDataSource, storeVars >>

\* await fetchVIX() settles; the sentiment fetch is started next
VIXSettles ==
  /\ pc = "awaitVIX"
  /\ \E att \in VixAttempts :
       LET primary == att.primary
           secondary == att.secondary
           r == fetchVIX(primary, secondary)
       IN /\ vixResult' =
               [status |-> r.status, vix |-> r.value.vix,
                source |-> r.value.source,
                producedBy |-> ProducedBy(primary.kind = "ok",
                                          secondary.kind = "ok")]
          /\ pc' = IF r.status = "return" THEN "awaitFG" ELSE "aborted"
          /\ lastDataSource' = r.value.source
  /\ UNCHANGED << call, config, fearGreedResponse, stage, quote, hist, analysis,
                  report, storeVars >>

\* await fetchFearGreedIndex() settles; analyzeStocks then starts the quote
\* and the history fetch of every configured symbol
FearGreedSettles ==
  /\ pc = "awaitFG"
  /\ \E fg \in FearGreedCalls :
       LET http == fg.http
           body == fg.body
           r == fetchFearGreedIndex(http, body)
       IN /\ fearGreedResponse' =
               [status |-> r.status, value |-> r.value, success |-> r.success,
                cause |-> IF http # "ok" THEN http
                          ELSE IF parseResponse(body).found THEN "parsed"
                          ELSE "no_shape"]
          /\ pc' = IF r.status = "return" THEN "awaitAnalyses" ELSE "aborted"
          /\ stage' = IF r.status = "return"
                        THEN [i \in Assets |-> "Fetching"] ELSE stage
  /\ UNCHANGED << call, config, vixResult, quote, hist, analysis, report,
                  lastDataSource, storeVars >>

FearGreedIndexOf(resp) == IF resp.success THEN resp.value ELSE NullVal

\* both fetches of asset i have settled: Promise.all resolves (or rejects)
\* and the synchronous rest of analyzeStock runs, then .then / .catch
\* variant: without the per-asset .catch a failed analysis rejects the
\* Promise.all of analyzeStocks and the pending siblings are abandoned
Settle_failFast(i, a, q, h) ==
  /\ analysis' = [analysis EXCEPT ![i] = a]
  /\ stage' = IF a.ok THEN [stage EXCEPT ![i] = "Scored"]
               ELSE [j \in Assets |->
                       IF stage[j] = "Fetching" THEN "Excluded" ELSE stage[j]]
  /\ quote' = [quote EXCEPT ![i] = IF q.status = "throw" THEN q ELSE Unsettled]
  /\ hist' = [hist EXCEPT ![i] = IF h.status = "throw" THEN h ELSE Unsettled]

Settle(i, a, q, h) ==
  /\ analysis' = [analysis EXCEPT ![i] = a]
  /\ stage' = [stage EXCEPT ![i] = IF a.ok THEN "Scored" ELSE "Excluded"]
  /\ quote' = [quote EXCEPT ![i] = IF q.status = "throw" THEN q ELSE Unsettled]
  /\ hist' = [hist EXCEPT ![i] = IF h.status = "throw" THEN h ELSE Unsettled]

\* variant: the analysis takes the provenance of its quote from the field
\* the market data service last wrote, as getLastDataSource() returns it
Continue_sharedSource(i, q, h) ==
  LET own == IF q.status = "return" /\ h.status = "return"
               THEN [q EXCEPT !.value.dataSource = lastDataSource'] ELSE q
  IN \/ \E input \in IndicatorInputs :
          Settle(i, analyzeStock(config.defaultStocks[i], vixResult.vix,
                                 FearGreedIndexOf(fearGreedResponse), own, h,
                                 input.shape, input.libraryFails, "none"),
                  q, h)
     \/ \E thrown \in StepThrows :
          LET input == CHOOSE x \in IndicatorInputs : TRUE
          IN Settle(i, analyzeStock(config.defaultStocks[i], vixResult.vix,
                                    FearGreedIndexOf(fearGreedResponse), own, h,
                                    input.shape, input.libraryFails, thrown),
                     q, h)

Continue(i, q, h) ==
  \/ \E input \in IndicatorInputs :
       Settle(i, analyzeStock(config.defaultStocks[i], vixResult.vix,
                              FearGreedIndexOf(fearGreedResponse), q, h,
                              input.shape, input.libraryFails, "none"),
               q, h)
  \/ \E thrown \in StepThrows :
       LET input == CHOOSE x \in IndicatorInputs : TRUE
       IN Settle(i, analyzeStock(config.defaultStocks[i], vixResult.vix,
                                 FearGreedIndexOf(fearGreedResponse), q, h,
                                 input.shape, input.libraryFails, thrown),
                  q, h)

\* an injected service rejects: Promise.all rejects at once, .catch gives null
RejectedFetch(i) ==
  Settle(i, [ok |-> FALSE, failedAt |-> "fetch", passed |-> << >>],
         Unsettled, Unsettled)

\* the settled result of fetchStockData for one pair of tier outcomes
QuoteSettlement(symbol, att) ==
  LET r == fetchStockData(symbol, att.primary, att.secondary)
  IN [status |-> r.status,
      value |-> [price |-> r.value.price,
                 dataSource |-> r.value.dataSource,
                 producedBy |->
                   ProducedBy(att.primary.kind = "ok",
                              att.secondary.kind \in {"ok", "no_price"})]]

HistorySettlement(symbol, att) ==
  LET r == fetchHistoricalData(symbol, HISTORY_DAYS, att.primary, att.secondary)
  IN [status |-> r.status,
      value |-> [n |-> r.value.n,
                 source |-> r.value.source,
                 producedBy |->
                   ProducedBy(att.primary.kind = "ok" /\ att.primary.n >= 10,
                              att.secondary.kind = "ok")]]

QuoteSettles(i) ==
  /\ pc = "awaitAnalyses"
  /\ stage[i] = "Fetching"
  /\ quote[i] = Unsettled
  /\ \/ RejectedFetch(i) /\ UNCHANGED lastDataSource
     \/ \E q \in { QuoteSettlement(config.defaultStocks[i], att) :
                     att \in QuoteAttempts } :
          /\ lastDataSource' = q.value.dataSource
          /\ IF hist[i] = Unsettled /\ q.status = "return"
               THEN /\ quote' = [quote EXCEPT ![i] = q]
                    /\ UNCHANGED << stage, hist, analysis >>
               ELSE Continue(i, q, IF hist[i] = Unsettled
                                     THEN [status |-> "return"] ELSE hist[i])
  /\ UNCHANGED << call, config, pc, vixResult, fearGreedResponse, report,
                  storeVars >>

HistorySettles(i) ==
  /\ pc = "awaitAnalyses"
  /\ stage[i] = "Fetching"
  /\ hist[i] = Unsettled
  /\ \/ RejectedFetch(i) /\ UNCHANGED lastDataSource
     \/ \E h \in { HistorySettlement(config.defaultStocks[i], att) :
                     att \in HistoryAttempts } :
          /\ lastDataSource' = h.value.source
          /\ IF quote[i] = Unsettled /\ h.status = "return"
               THEN /\ hist' = [hist EXCEPT ![i] = h]
                    /\ UNCHANGED << stage, quote, analysis >>
               ELSE Continue(i, IF quote[i] = Unsettled
                                  THEN [status |-> "return"] ELSE quote[i], h)
  /\ UNCHANGED << call, config, pc, vixResult, fearGreedResponse, report,
                  storeVars >>

\* every promise handed to Promise.all in analyzeStocks has settled
AllAnalysesSettled ==
  /\ pc = "awaitAnalyses"
  /\ \A i \in Assets : stage[i] \in {"Scored", "Excluded"}

\* Promise.all of analyzeStocks resolves; the report is built and returned
Assemble ==
  /\ AllAnalysesSettled
  /\ report' = [returned |-> TRUE]
                 @@ buildReport(config, vixResult, fearGreedResponse,
                                [i \in Assets |-> analysis[i]])
  /\ pc' = "done"
  /\ UNCHANGED << call, config, vixResult, fearGreedResponse, stage, quote, hist,
                  analysis, lastDataSource, storeVars >>

Next ==
  \/ Invoke
  \/ VIXSettles
  \/ FearGreedSettles
  \/ \E i \in Assets : QuoteSettles(i)
  \/ \E i \in Assets : HistorySettles(i)
  \/ Assemble

Spec == Init /\ [][Next]_vars

\* an await of generateAllocation resumes once the awaited promise has
\* settled: fetchVIX and fetchFearGreedIndex settle (every request has a
\* timeout), and Promise.all(analysisPromises) resolves when
\* AllAnalysesSettled holds (Assemble is then enabled, and it is the only
\* step that takes pc to "done")
AwaitResumes ==
  \/ pc = "awaitVIX" /\ pc' = "awaitFG"
  \/ pc = "awaitFG" /\ pc' = "awaitAnalyses"
  \/ AllAnalysesSettled /\ pc' = "done"

\* the two fetches of an asset under analysis settle, so that the asset
\* leaves the stage "Fetching"
AnalysisSettles ==
  \E i \in Assets :
    /\ pc = "awaitAnalyses"
    /\ stage[i] = "Fetching"
    /\ \E s \in {"Scored", "Excluded"} : stage' = [stage EXCEPT ![i] = s]

\* started network calls settle and a runnable continuation is run
FairSpec == Spec /\ WF_pc(AwaitResumes) /\ WF_stage(AnalysisSettles)

\* where asset i stands in Pending -> DataFetched -> IndicatorsComputed ->
\* Scored -> Allocated, or ExcludedFromReport: the steps between the settled
\* fetches and the score run without interruption inside analyzeStock, so
\* between two steps of the engine an asset is seen Pending, Scored,
\* Allocated or ExcludedFromReport
AssetState(i) ==
  IF stage[i] = "Excluded" THEN "ExcludedFromReport"
  ELSE IF stage[i] = "Scored"
    THEN IF report.returned
              /\ \E k \in 1..Len(report.allocations) :
                   report.allocations[k].symbol = config.defaultStocks[i]
           THEN "Allocated" ELSE "Scored"
  ELSE "Pending"

\* the call this.marketDataService.fetchVIX() has been made
VIXFetchStarted == pc # "idle"

\* the call this.fearGreedService.fetchFearGreedIndex() has been made: it
\* follows the await of the VIX fetch
FearGreedFetchStarted ==
  \/ pc \in {"awaitFG", "awaitAnalyses", "done"}
  \/ fearGreedResponse # Unsettled

\* ------------------------------------------------- delivery of a report
\* email = "ok" | "connection_failed" (testConnection resolves false)
\*       | "connect_throws" | "send_throws"
\* The result tells whether delivery was attempted, whether the report was
\* sent, and whether an exception leaves the block.
emailDelivery(email) ==
  [attempted |-> TRUE,
   sent |-> email = "ok",
   status |-> IF email \in {"connect_throws", "send_throws"}
                THEN "throw" ELSE "return"]

\* db = "ok" | "failed" (saveAnalysisReport resolves success: false) | "throws"
databaseSave(db) ==
  [attempted |-> TRUE,
   saved |-> db = "ok",
   status |-> IF db = "throws" THEN "throw" ELSE "return"]

NotAttempted == [attempted |-> FALSE, sent |-> FALSE, saved |-> FALSE,
                 status |-> "return"]

\* try { ... } catch { log }: the exception does not leave the block
Caught(r) == [r EXCEPT !.status = "return"]

\* variant: the route sends the email outside a try block of its own
analyzeRoute_noEmailCatch(emailWanted, dbWanted, email, db) ==
  LET e == IF emailWanted THEN emailDelivery(email) ELSE NotAttempted
      d == IF e.status = "throw" THEN NotAttempted
           ELSE IF dbWanted THEN Caught(databaseSave(db)) ELSE NotAttempted
  IN IF e.status = "throw"
       THEN [httpStatus |-> 500, success |-> FALSE, report |-> FALSE,
             emailAttempted |-> e.attempted, dbAttempted |-> d.attempted,
             emailSent |-> FALSE, savedToDatabase |-> FALSE]
       ELSE [httpStatus |-> 200, success |-> TRUE, report |-> TRUE,
             emailAttempted |-> e.attempted, dbAttempted |-> d.attempted,
             emailSent |-> e.sent, savedToDatabase |-> d.saved]

\* POST /api/analyze after generateAllocation returned the report:
\* emailWanted is shouldSendEmail && config.emailTo.length > 0,
\* dbWanted is shouldSaveToDatabase && config.convexUrl
analyzeRoute(emailWanted, dbWanted, email, db) ==
  LET e == IF emailWanted THEN Caught(emailDelivery(email)) ELSE NotAttempted
      d == IF e.status = "throw" THEN NotAttempted
           ELSE IF dbWanted THEN Caught(databaseSave(db)) ELSE NotAttempted
  IN IF e.status = "throw" \/ d.status = "throw"
       THEN [httpStatus |-> 500, success |-> FALSE, report |-> FALSE,
             emailAttempted |-> e.attempted, dbAttempted |-> d.attempted,
             emailSent |-> FALSE, savedToDatabase |-> FALSE]
       ELSE [httpStatus |-> 200, success |-> TRUE, report |-> TRUE,
             emailAttempted |-> e.attempted, dbAttempted |-> d.attempted,
             emailSent |-> e.sent, savedToDatabase |-> d.saved]

\* the scheduled job after generateAllocation returned the report: the save
\* has a try block of its own and comes first, the email is covered by the
\* outer try block only; the job itself never throws
runScheduledAnalysis(emailWanted, dbWanted, email, db) ==
  LET d == IF dbWanted THEN Caught(databaseSave(db)) ELSE NotAttempted
      e == IF d.status = "throw" THEN NotAttempted
           ELSE IF emailWanted THEN emailDelivery(email) ELSE NotAttempted
  IN [status |-> "return", report |-> TRUE,
      emailAttempted |-> e.attempted, dbAttempted |-> d.attempted,
      emailSent |-> e.sent, savedToDatabase |-> d.saved]

\* ------------------------------------------- direct calls of the services
\* A service function is called on its own with arguments drawn from the
\* sets below; the engine stays idle.

\* response bodies: every shape parseResponse knows, with candidate scores
\* (in tenths) that are missing, null, NaN, negative, in range and above 100
FearGreedBodies ==
  { [shape |-> sh, score |-> sc] :
      sh \in { "fear_and_greed", "array_xy", "score",
               "fear_and_greed_historical", "fear_and_greed_null", "unknown" },
      sc \in { UndefVal, NullVal, NaNVal, Num(-250), Num(-4), Num(0), Num(104),
               Num(1000), Num(1004), Num(1500) } }

FearGreedServiceCalls ==
  { [fn |-> "fetchFearGreedIndex", args |-> [http |-> h, body |-> b],
     result |-> Unsettled] :
      h \in {"ok", "error", "timeout"}, b \in FearGreedBodies }

\* history fetches: each tier fails or answers with a series of n closes
HistoryServiceCalls ==
  { [fn |-> "fetchHistoricalData",
     args |-> [symbol |-> "QQQ", days |-> HISTORY_DAYS, primary |-> p,
               secondary |-> q],
     result |-> Unsettled] :
      p \in { Series("ok", 150), Series("ok", 10), Series("ok", 9),
              Series("ok", 0), Series("error", 0) },
      q \in { Series("ok", 150), Series("ok", 10), Series("ok", 9),
              Series("ok", 5), Series("ok", 0), Series("malformed", 0),
              Series("error", 0) } }

\* what Math.random() may return, in halves
RandomDraws == {0, 1}

\* the quote and the series of one symbol fetched twice while no tier answers
SimulatedServiceCalls ==
  { [fn |-> "simulated", args |-> [symbol |-> sym, days |-> d],
     result |-> Unsettled] :
      sym \in {"QQQ", "GOOG"}, d \in {1, 2} }

\* indicator inputs of a composite: zero, negative, threshold, ordinary and
\* very large values (VIX in tenths, slope in 1/10000, sentiment whole
\* points or null); price and MA50 are pairs whose deviation is exact:
\* -100%, -15%, -10%, -7%, 0%, +70%, +19900%, and MA50 = 0
BreakdownServiceCalls ==
  { [fn |-> "calculateCSSBreakdown",
     args |-> [vix |-> v, fearGreedIndex |-> fg,
               technicalIndicators |->
                 [rsi |-> r, bbWidth |-> w, ma50 |-> pm[2], ma50Slope |-> sl,
                  dataSource |-> "yahoo-finance2"],
               currentPrice |-> Num(pm[1])],
     result |-> Unsettled] :
      v \in {-50, 0, 255, 100000},
      r \in {-10, 0, 55, 1000},
      w \in {-5, 12, 1000},
      pm \in { <<0, 100>>, <<85, 100>>, <<90, 100>>, <<93, 100>>, <<100, 100>>,
               <<85, 50>>, <<10000, 50>>, <<85, 0>> },
      sl \in {-300, 0, 300},
      fg \in {NullVal, Num(-5), Num(0), Num(50), Num(1000)} }

\* scores (thousandths of a point) below 0, on and next to every step of
\* the table, and above 100
MultiplierInputs ==
  { -5000, 0, 20000, 20001, 35000, 35001, 50000, 50001, 60000, 60001,
    75000, 100000, 100001, 250000 }

\* the mapping applied to two scores
MultiplierServiceCalls ==
  { [fn |-> "cssToMultiplier", args |-> [a |-> x, b |-> y],
     result |-> Unsettled] : x \in MultiplierInputs, y \in MultiplierInputs }

\* VIX in tenths, sentiment in whole points or null
MarketServiceCalls ==
  { [fn |-> "calculateMarketCSS", args |-> [vix |-> v, fearGreedIndex |-> fg],
     result |-> Unsettled] :
      v \in {-50, 0, 120, 200, 255, 350, 450},
      fg \in {NullVal, Num(0), Num(20), Num(50), Num(80), Num(100)} }

\* analyses handed to calculateAllocations: QQQ with a multiplier that is
\* NaN, infinite or finite, alone or followed by GOOG
AllocationServiceCalls ==
  { [fn |-> "calculateAllocations",
     args |-> [analyses |->
                 << [symbol |-> "QQQ",
                     cssBreakdown |-> [multiplier |-> m, totalCSS |-> 5000]] >>
                 \o rest,
               baseBudget |-> b.weeklyInvestmentAmount,
               minBudget |-> b.minBudget,
               maxBudget |-> b.maxBudget],
     result |-> Unsettled] :
      m \in {NaNVal, PosInfinity, NegInfinity, Num(8), Num(10)},
      rest \in { << >>,
                 << [symbol |-> "GOOG",
                     cssBreakdown |-> [multiplier |-> Num(12),
                                       totalCSS |-> 8000]] >> },
      b \in BudgetConfigs }

\* delivery after the report was assembled, in the HTTP and the scheduled
\* path, for every outcome of the email and of the database service
DeliveryServiceCalls ==
  { [fn |-> f,
     args |-> [emailWanted |-> ew, dbWanted |-> dw, email |-> e, db |-> d],
     result |-> Unsettled] :
      f \in {"analyzeRoute", "runScheduledAnalysis"},
      ew \in BOOLEAN, dw \in BOOLEAN,
      e \in {"ok", "connection_failed", "connect_throws", "send_throws"},
      d \in {"ok", "failed", "throws"} }

\* series lengths on both sides of every window the calculations need
SeriesLengths == {0, 1, 2, 14, 15, 19, 20, 49, 50, 99, 100, 150}

IndicatorServiceCalls ==
  { [fn |-> "calculateIndicators",
     args |-> [n |-> n, shape |-> input.shape,
               libraryFails |-> input.libraryFails],
     result |-> Unsettled] :
      n \in SeriesLengths, input \in IndicatorInputs }

ServiceCalls ==
  IndicatorServiceCalls \cup DeliveryServiceCalls \cup AllocationServiceCalls \cup MarketServiceCalls \cup FearGreedServiceCalls \cup HistoryServiceCalls \cup SimulatedServiceCalls
    \cup BreakdownServiceCalls \cup MultiplierServiceCalls

ServiceInit ==
  /\ call \in ServiceCalls
  /\ \E b \in BudgetConfigs :
       config = getConfig(b.weeklyInvestmentAmount, SubSeq(SymbolPool, 1, 1))
  /\ pc = "idle"
  /\ vixResult = Unsettled
  /\ fearGreedResponse = Unsettled
  /\ stage = [i \in 1..1 |-> "Pending"]
  /\ quote = [i \in 1..1 |-> Unsettled]
  /\ hist = [i \in 1..1 |-> Unsettled]
  /\ analysis = [i \in 1..1 |-> NoAnalysis]
  /\ report = NoReport
  /\ lastDataSource = "yahoo-finance2"
  /\ StoreIdle

\* the called function returns (or throws); only call changes
Returns(fn, result) ==
  /\ call.fn = fn
  /\ call.result = Unsettled
  /\ call' = [call EXCEPT !.result = result]
  /\ UNCHANGED << config, pc, vixResult, fearGreedResponse, stage, quote,
                  hist, analysis, report, lastDataSource, storeVars >>

CallFetchFearGreedIndex ==
  Returns("fetchFearGreedIndex",
          fetchFearGreedIndex(call.args.http, call.args.body))

CallFetchHistoricalData ==
  Returns("fetchHistoricalData",
          fetchHistoricalData(call.args.symbol, call.args.days,
                              call.args.primary, call.args.secondary))

\* one fetch of quote and series with every tier failing; the series is what
\* getSimulatedHistoricalData pushes for the draws `random`
SimulatedFetch(symbol, days, random) ==
  LET q == fetchStockData(symbol, Outcome("error", 0), Outcome("error", 0))
      h == fetchHistoricalData(symbol, days, Series("error", 0),
                               Series("error", 0))
  IN [price |-> q.value.price, dataSource |-> q.value.dataSource,
      source |-> h.value.source,
      prices |-> getSimulatedHistoricalData(h.value.n, random)]

CallSimulatedTwice ==
  /\ call.fn = "simulated"
  /\ \E r1, r2 \in [1..(call.args.days + 1) -> RandomDraws] :
       Returns("simulated",
               [first |-> SimulatedFetch(call.args.symbol, call.args.days, r1),
                second |-> SimulatedFetch(call.args.symbol, call.args.days, r2)])

CallCalculateCSSBreakdown ==
  Returns("calculateCSSBreakdown",
          calculateCSSBreakdown(call.args.vix, call.args.fearGreedIndex,
                                call.args.technicalIndicators,
                                call.args.currentPrice))

CallCssToMultiplier ==
  Returns("cssToMultiplier",
          [a |-> cssToMultiplier(call.args.a),
           b |-> cssToMultiplier(call.args.b)])

CallCalculateMarketCSS ==
  Returns("calculateMarketCSS",
          [marketCSS |->
             calculateMarketCSS(call.args.vix, call.args.fearGreedIndex)])

\* calculateAllocations and the total generateAllocation derives from it
CallCalculateAllocations ==
  LET allocations ==
        calculateAllocations(call.args.analyses, call.args.baseBudget,
                             call.args.minBudget, call.args.maxBudget)
  IN Returns("calculateAllocations",
             [allocations |-> allocations,
              totalAmount |-> totalAmountOf(allocations, call.args.baseBudget),
              totalIsNaN |->
                \E k \in 1..Len(allocations) : allocations[k].amountIsNaN])

CallCalculateIndicators ==
  Returns("calculateIndicators",
          calculateIndicators(call.args.n, call.args.shape,
                              call.args.libraryFails))

CallAnalyzeRoute ==
  Returns("analyzeRoute",
          analyzeRoute(call.args.emailWanted, call.args.dbWanted,
                       call.args.email, call.args.db))

CallRunScheduledAnalysis ==
  Returns("runScheduledAnalysis",
          runScheduledAnalysis(call.args.emailWanted, call.args.dbWanted,
                               call.args.email, call.args.db))

ServiceNext ==
  \/ CallFetchFearGreedIndex
  \/ CallCalculateIndicators
  \/ CallAnalyzeRoute
  \/ CallRunScheduledAnalysis
  \/ CallCalculateAllocations
  \/ CallCalculateMarketCSS
  \/ CallCssToMultiplier
  \/ CallCalculateCSSBreakdown
  \/ CallFetchHistoricalData
  \/ CallSimulatedTwice

ServiceSpec == ServiceInit /\ [][ServiceNext]_vars

\* --------------------------------------------- DatabaseService and Convex
\* snapshots.getSnapshotByDate: a snapshot of the table with this date, or
\* null if there is none (the set of the results the query can give)
getSnapshotByDate(table, date) ==
  IF \E snap \in table : snap.date = date
    THEN { snap \in table : snap.date = date }
    ELSE { NoSnapshot }

\* snapshots.deleteSnapshot: the snapshot with this id leaves the table
deleteSnapshot(table, snapshotId) == { snap \in table : snap.id # snapshotId }

\* snapshots.saveWeeklySnapshot: ctx.db.insert("weeklySnapshots", args); the
\* new document is identified by the call that inserted it
saveWeeklySnapshot(table, id, date) == table \cup { [id |-> id, date |-> date] }

\* the call returns {success: false, error} and leaves the rest as it is
SaveFails(s) ==
  /\ save' = [save EXCEPT ![s].pc = "returned", ![s].result = "failure"]
  /\ UNCHANGED << weeklySnapshots, savedLast >>

\* saveAnalysisReport is called with a report of some date; without a
\* database client or without the generated API it returns at once
StartSave(s) ==
  /\ save[s].pc = "idle"
  /\ \E enabled \in BOOLEAN, date \in Dates :
       IF enabled
         THEN /\ save' = [save EXCEPT ![s].pc = "query", ![s].date = date]
              /\ UNCHANGED << weeklySnapshots, savedLast >>
         ELSE SaveFails(s)
  /\ UNCHANGED << call, config, pc, vixResult, fearGreedResponse, stage, quote,
                  hist, analysis, report, lastDataSource >>

\* await this.client.query(getSnapshotByDate, { date }) settles
QuerySnapshot(s) ==
  /\ save[s].pc = "query"
  /\ \/ SaveFails(s)
     \/ \E found \in getSnapshotByDate(weeklySnapshots, save[s].date) :
          /\ save' = [save EXCEPT
                        ![s].pc = IF found = NoSnapshot THEN "insert"
                                  ELSE "delete",
                        ![s].existingSnapshot = found]
          /\ UNCHANGED << weeklySnapshots, savedLast >>
  /\ UNCHANGED << call, config, pc, vixResult, fearGreedResponse, stage, quote,
                  hist, analysis, report, lastDataSource >>

\* await this.client.mutation(deleteSnapshot, { snapshotId }) settles; the
\* mutation may reject, as it may when the snapshot is already gone
DeleteSnapshot(s) ==
  /\ save[s].pc = "delete"
  /\ \/ SaveFails(s)
     \/ /\ weeklySnapshots' =
            deleteSnapshot(weeklySnapshots, save[s].existingSnapshot.id)
        /\ save' = [save EXCEPT ![s].pc = "insert"]
        /\ UNCHANGED savedLast
  /\ UNCHANGED << call, config, pc, vixResult, fearGreedResponse, stage, quote,
                  hist, analysis, report, lastDataSource >>

\* await this.client.mutation(saveWeeklySnapshot, {...}) settles
InsertSnapshot(s) ==
  /\ save[s].pc = "insert"
  /\ \/ SaveFails(s)
     \/ /\ weeklySnapshots' =
            saveWeeklySnapshot(weeklySnapshots, s, save[s].date)
        /\ savedLast' = [savedLast EXCEPT ![save[s].date] = s]
        /\ save' = [save EXCEPT ![s].pc = "analyses"]
  /\ UNCHANGED << call, config, pc, vixResult, fearGreedResponse, stage, quote,
                  hist, analysis, report, lastDataSource >>

\* saveStockAnalyses settles (or there is nothing to save) and the call
\* returns {success: true, snapshotId, replaced}, or the mutation rejects
SaveStockAnalyses(s) ==
  /\ save[s].pc = "analyses"
  /\ \/ SaveFails(s)
     \/ /\ save' = [save EXCEPT ![s].pc = "returned", ![s].result = "success"]
        /\ UNCHANGED << weeklySnapshots, savedLast >>
  /\ UNCHANGED << call, config, pc, vixResult, fearGreedResponse, stage, quote,
                  hist, analysis, report, lastDataSource >>

StoreInit ==
  /\ \E b \in BudgetConfigs :
       config = getConfig(b.weeklyInvestmentAmount, SubSeq(SymbolPool, 1, 1))
  /\ pc = "idle"
  /\ vixResult = Unsettled
  /\ fearGreedResponse = Unsettled
  /\ stage = [i \in 1..1 |-> "Pending"]
  /\ quote = [i \in 1..1 |-> Unsettled]
  /\ hist = [i \in 1..1 |-> Unsettled]
  /\ analysis = [i \in 1..1 |-> NoAnalysis]
  /\ report = NoReport
  /\ lastDataSource = "yahoo-finance2"
  /\ call = NoCall
  /\ StoreIdle

StoreNext ==
  \/ \E s \in Savers : StartSave(s)
  \/ \E s \in Savers : QuerySnapshot(s)
  \/ \E s \in Savers : DeleteSnapshot(s)
  \/ \E s \in Savers : InsertSnapshot(s)
  \/ \E s \in Savers : SaveStockAnalyses(s)

StoreSpec == StoreInit /\ [][StoreNext]_vars

\* ---------------------------------------------------------------- claims

\* C1: in a returned report every asset's final amount, after clamping and
\* rounding, lies between minForAsset = minBudget x basePercentage / 100 and
\* maxForAsset = maxBudget x basePercentage / 100
C1_FinalAmountWithinAssetBounds ==
  report.returned =>
    \A k \in 1..Len(report.allocations) :
      LET a == report.allocations[k]
          basePercentage == getBaseAllocationPercentage(a.symbol)
      IN /\ config.minBudget * basePercentage * 10 <= a.amount * 70000
         /\ a.amount * 70000 <= config.maxBudget * basePercentage * 10

\* C2: the report's totalAmount is the sum of the amounts of the allocations
\* listed in that report (0 for an empty list), never the base budget as such
C2_TotalIsSumOfListedAmounts ==
  report.returned =>
    LET n == Len(report.allocations)
        sum[k \in 0..n] ==
          IF k = 0 THEN 0 ELSE sum[k - 1] + report.allocations[k].amount
    IN report.totalAmount = sum[n]

C2_Witness ==
  /\ report.returned
  /\ Len(report.allocations) = 2
  /\ report.totalAmount # config.weeklyInvestmentAmount
  /\ report.totalAmount =
       report.allocations[1].amount + report.allocations[2].amount

\* C3: an asset whose analysis failed (fetch, indicators or scoring) has no
\* entry in the allocation list, every other asset has exactly one, and the
\* invocation goes on to return the report instead of raising
C3_FailedAssetIsDropped ==
  /\ (\E i \in Assets : analysis[i].failedAt # "none") => pc # "aborted"
  /\ pc = "done" => report.returned
  /\ report.returned =>
       \A i \in Assets :
         LET entries == { k \in 1..Len(report.allocations) :
                            report.allocations[k].symbol = config.defaultStocks[i] }
         IN IF analysis[i].failedAt # "none"
              THEN entries = {}
              ELSE Cardinality(entries) = 1

C3_Witness ==
  /\ report.returned
  /\ \E i, j \in Assets :
       /\ analysis[i].failedAt = "indicators"
       /\ analysis[j].ok
       /\ Len(report.allocations) = 1
       /\ report.allocations[1].symbol = config.defaultStocks[j]

\* C4: when the analysis of asset i failed, every other asset's entry in the
\* report (amount, multiplier, composite score) is the entry it has in the
\* report of a run in which asset i was analysed successfully, and in the
\* report of a run in which asset i is not configured
C4_SiblingsUnaffectedByFailure ==
  report.returned =>
    \A i \in Assets :
      analysis[i].failedAt # "none" =>
        LET symbol == config.defaultStocks[i]
            n == Len(config.defaultStocks)
            Entry(rep, sym) ==
              { [amount |-> rep.allocations[k].amount,
                 multiplier |-> rep.allocations[k].multiplier,
                 cssScore |-> rep.allocations[k].cssScore] :
                  k \in { x \in 1..Len(rep.allocations) :
                            rep.allocations[x].symbol = sym } }
            succeeded ==
              { analyzeStock(symbol, vixResult.vix,
                             FearGreedIndexOf(fearGreedResponse), q, h,
                             input.shape, input.libraryFails, "none") :
                  q \in { QuoteSettlement(symbol, att) : att \in QuoteAttempts },
                  h \in { HistorySettlement(symbol, att) : att \in HistoryAttempts },
                  input \in IndicatorInputs }
            without ==
              buildReport(
                [config EXCEPT !.defaultStocks =
                   SubSeq(config.defaultStocks, 1, i - 1)
                     \o SubSeq(config.defaultStocks, i + 1, n)],
                vixResult, fearGreedResponse,
                SubSeq(analysis, 1, i - 1) \o SubSeq(analysis, i + 1, n))
        IN \A j \in Assets \ {i} :
             LET sibling == config.defaultStocks[j]
             IN /\ Entry(report, sibling) = Entry(without, sibling)
                /\ \A a \in succeeded :
                     Entry(report, sibling) =
                       Entry(buildReport(config, vixResult, fearGreedResponse,
                                         [analysis EXCEPT ![i] = a]),
                             sibling)

C4_Witness ==
  /\ report.returned
  /\ Len(config.defaultStocks) >= 2
  /\ analysis[1].failedAt = "fetch"
  /\ analysis[2].ok
  /\ Len(report.allocations) = 1
  /\ report.allocations[1].multiplier # 10

\* C5: fetchStockData, fetchHistoricalData and fetchVIX return a value and
\* never raise, whatever the primary and the secondary source do
C5_MarketFetchesNeverRaise ==
  /\ vixResult.status \in {"pending", "return"}
  /\ \A i \in Assets :
       /\ quote[i].status \in {"pending", "return"}
       /\ hist[i].status \in {"pending", "return"}

C5_Witness ==
  /\ vixResult.status = "return"
  /\ vixResult.producedBy = "synthetic"
  /\ \E i, j \in Assets :
       /\ quote[i].status = "return"
       /\ quote[i].value.producedBy = "synthetic"
       /\ hist[j].status = "return"
       /\ hist[j].value.producedBy = "synthetic"

\* C6: the provenance tag of a quote, a history series and the volatility
\* index names the tier that produced the value: primary, secondary, or
\* synthetic when both sources failed
C6_TagNamesProducingTier ==
  LET TierOf(tag) ==
        IF tag = "yahoo-finance2" THEN "primary"
        ELSE IF tag = "axios-fallback" THEN "secondary"
        ELSE IF tag = "simulated" THEN "synthetic" ELSE "none"
  IN /\ vixResult.status = "return" =>
          TierOf(vixResult.source) = vixResult.producedBy
     /\ \A i \in Assets :
          /\ quote[i].status = "return" =>
               TierOf(quote[i].value.dataSource) = quote[i].value.producedBy
          /\ hist[i].status = "return" =>
               TierOf(hist[i].value.source) = hist[i].value.producedBy
          /\ analysis[i].ok =>
               TierOf(analysis[i].marketData.dataSource)
                 = analysis[i].marketData.producedBy

\* C7: the invocation never aborts, and once it has been started and its
\* network calls settle it returns a report whose total is a number
C7_EveryInvocationReturnsAReport ==
  /\ [](pc # "aborted")
  /\ (pc = "awaitVIX") ~>
       (pc = "done" /\ report.returned /\ report.totalAmount \in Nat)

C7_Witness ==
  /\ pc = "done"
  /\ report.returned
  /\ vixResult.producedBy = "synthetic"
  /\ ~fearGreedResponse.success
  /\ Len(config.defaultStocks) >= 2
  /\ \A i \in Assets : stage[i] = "Excluded"
  /\ analysis[1].failedAt = "fetch"
  /\ analysis[2].failedAt = "scoring"

\* C8: a report that used a value from a degraded source (a secondary or
\* synthetic volatility index or quote, custom-fallback indicators, or an
\* unavailable sentiment index) carries an advisory: a warning among its
\* recommendations or a non-primary entry in its data-source status
C8_DegradedDataIsAdvised ==
  report.returned =>
    LET degraded ==
          \/ vixResult.producedBy # "primary"
          \/ ~fearGreedResponse.success
          \/ \E i \in Assets :
               /\ analysis[i].ok
               /\ \/ analysis[i].marketData.producedBy # "primary"
                  \/ analysis[i].technicalIndicators.dataSource = "custom-fallback"
        advisory ==
          \/ \E k \in 1..Len(report.recommendations) :
               report.recommendations[k] \in
                 { "WARN_MARKET_DATA_AXIOS_FALLBACK",
                   "WARN_INDICATORS_CUSTOM_FALLBACK", "WARN_FEAR_GREED_FAILED" }
          \/ report.dataSourceStatus.marketDataSource # "yahoo-finance2"
          \/ report.dataSourceStatus.indicatorSource # "technicalindicators"
    IN degraded => advisory

\* C9 as stated: the sentiment fetch never raises, and when the HTTP call
\* errors or times out or no response shape matches it returns
\* success = false with value = null
C9_FailureReturnsNullValue ==
  fearGreedResponse.status # "pending" =>
    /\ fearGreedResponse.status = "return"
    /\ fearGreedResponse.cause \in {"error", "timeout", "no_shape"} =>
         /\ fearGreedResponse.success = FALSE
         /\ fearGreedResponse.value = NullVal

\* C9 amended: the sentiment fetch never raises, and when the HTTP call
\* errors or times out or no response shape matches it returns
\* success = false with the neutral placeholder value 50
C9_FailureReturnsNeutralPlaceholder ==
  fearGreedResponse.status # "pending" =>
    /\ fearGreedResponse.status = "return"
    /\ fearGreedResponse.cause \in {"error", "timeout", "no_shape"} =>
         /\ fearGreedResponse.success = FALSE
         /\ fearGreedResponse.value = Num(50)

C9_Witness ==
  /\ fearGreedResponse.status = "return"
  /\ fearGreedResponse.cause = "timeout"
  /\ fearGreedResponse.success = FALSE
  /\ pc = "awaitAnalyses"

\* C10: exactly when the sentiment fetch reported success = false, an asset's
\* composite is the one computed with the weights 0.275 / 0.375 / 0.15 / 0.20
\* and no sentiment term, weightsAdjusted is true and the sentiment score is
\* null; otherwise the weights are 0.20 / 0.30 / 0.15 / 0.20 / 0.15 and
\* weightsAdjusted is false
C10_FallbackWeightsExactlyOnFailure ==
  fearGreedResponse.status = "return" =>
    \A i \in Assets :
      analysis[i].ok =>
        LET b == analysis[i].cssBreakdown
            failed == ~fearGreedResponse.success
            raw == IF failed
                     THEN b.vixScore * 275 + b.rsiScore * 375
                          + b.bbWidthScore * 150 + b.ma50ScoreAdjusted * 200
                     ELSE b.vixScore * 200 + b.rsiScore * 300
                          + b.bbWidthScore * 150 + b.ma50ScoreAdjusted * 200
                          + b.fearGreedScore.v * 150
            composite == IF raw < 0 THEN 0
                         ELSE IF raw > 100000 THEN 100000 ELSE raw
        IN /\ b.weightsAdjusted = failed
           /\ (b.fearGreedScore = NullVal) = failed
           /\ b.totalCSS = RoundDiv(composite, 10)
           /\ b.multiplier = Num(cssToMultiplier(composite))

C10_Witness ==
  /\ fearGreedResponse.status = "return"
  /\ ~fearGreedResponse.success
  /\ fearGreedResponse.value = Num(50)
  /\ \E i \in Assets :
       /\ analysis[i].ok
       /\ analysis[i].cssBreakdown.weightsAdjusted
       /\ analysis[i].cssBreakdown.fearGreedScore = NullVal
       /\ analysis[i].cssBreakdown.vixScore # analysis[i].cssBreakdown.rsiScore

\* C11: whenever the sentiment fetch returns success = true its value is a
\* number between 0 and 100
C11_SuccessfulSentimentIsInRange ==
  (call.fn = "fetchFearGreedIndex" /\ call.result # Unsettled) =>
    (call.result.success =>
       /\ call.result.value.t = "num"
       /\ call.result.value.v >= 0
       /\ call.result.value.v <= 100)

\* C12: a series returned from a live tier (primary or secondary) has at
\* least 10 price points
C12_LiveSeriesHasTenPoints ==
  (call.fn = "fetchHistoricalData" /\ call.result # Unsettled) =>
    (call.result.value.source \in {"yahoo-finance2", "axios-fallback"} =>
       call.result.value.n >= 10)

\* C13: without live data, two fetches for the same symbol and length return
\* the same synthetic price and the same synthetic series
C13_SimulatedDataIsRepeatable ==
  (call.fn = "simulated" /\ call.result # Unsettled) =>
    /\ call.result.first.price = call.result.second.price
    /\ call.result.first.prices = call.result.second.prices

InScoreRange(x) == x >= 0 /\ x <= 100

\* C14: for all finite indicator inputs, zero, negative and very large ones
\* included, every per-indicator score of a breakdown (volatility, RSI,
\* BB width, base MA50, adjusted MA50, sentiment) and the composite score
\* lie in [0, 100]
C14_ScoresWithinZeroAndHundred ==
  (call.fn = "calculateCSSBreakdown" /\ call.result # Unsettled) =>
    /\ InScoreRange(call.result.vixScore)
    /\ InScoreRange(call.result.rsiScore)
    /\ InScoreRange(call.result.bbWidthScore)
    /\ InScoreRange(call.result.ma50Score)
    /\ InScoreRange(call.result.ma50ScoreAdjusted)
    /\ call.args.fearGreedIndex.t = "num" =>
         /\ call.result.fearGreedScore.t = "num"
         /\ InScoreRange(call.result.fearGreedScore.v)
    /\ call.result.totalCSS >= 0
    /\ call.result.totalCSS <= 100 * 100

\* a breakdown of a very large VIX, a negative RSI and a deep discount in a
\* strong uptrend: base MA50 score 90 plus bonus 15 is clamped to 90
C14_Witness ==
  /\ call.fn = "calculateCSSBreakdown"
  /\ call.result # Unsettled
  /\ call.args.vix = 100000
  /\ call.args.technicalIndicators.rsi < 0
  /\ call.args.fearGreedIndex = Num(1000)
  /\ call.result.ma50Score + call.result.ma50SlopeBonus > 100
  /\ call.result.ma50ScoreAdjusted = 90

C16_TotalWithinBudgetCaps ==
  report.returned =>
    /\ report.totalAmount # 0
    /\ 2 * report.totalAmount >= report.baseBudget
    /\ 10 * report.totalAmount <= 12 * report.baseBudget

\* C17: in every invocation, a POST /api/analyze request overriding the
\* investment amount included, the minBudget and maxBudget used for clamping
\* and written into the report are 0.5 x and 1.2 x the base budget of that
\* invocation
C17_BudgetRangeFollowsBaseBudget ==
  report.returned =>
    /\ report.baseBudget = config.weeklyInvestmentAmount
    /\ report.minBudget = config.minBudget
    /\ report.maxBudget = config.maxBudget
    /\ 10 * report.minBudget = 5 * report.baseBudget
    /\ 10 * report.maxBudget = 12 * report.baseBudget

\* C18: the MA50 trend adjustment is applied for every MA50 deviation <= -10,
\* a deviation of exactly -10 included: the adjusted MA50 score equals
\* clamp(base score + slope bonus, 20, 90)
C18_AdjustmentAppliedAtBoundary ==
  (/\ call.fn = "calculateCSSBreakdown"
   /\ call.result # Unsettled
   /\ call.result.ma50DeviationPercent.t = "num"
   /\ call.result.ma50DeviationPercent.v <= -1000)
    => /\ call.result.ma50SlopeBonus =
            calculateMA50SlopeBonus(call.args.technicalIndicators.ma50Slope)
       /\ call.result.ma50ScoreAdjusted =
            ClampTo(20, 90, call.result.ma50Score + call.result.ma50SlopeBonus)

\* C19: for any slope, whenever the MA50 deviation is greater than -10 the
\* slope bonus is exactly 0 and the adjusted MA50 score used in the composite
\* equals the base MA50 score
C19_NoBonusOutsideDeepDiscount ==
  (/\ call.fn = "calculateCSSBreakdown"
   /\ call.result # Unsettled
   /\ call.result.ma50DeviationPercent.t = "num"
   /\ call.result.ma50DeviationPercent.v > -1000)
    => /\ call.result.ma50SlopeBonus = 0
       /\ call.result.ma50ScoreAdjusted = call.result.ma50Score

\* a price 7% below its MA50 in a strong downtrend: no bonus, score unchanged
C19_Witness ==
  /\ call.fn = "calculateCSSBreakdown"
  /\ call.result # Unsettled
  /\ call.result.ma50DeviationPercent = Num(-700)
  /\ call.args.technicalIndicators.ma50Slope = -300
  /\ calculateMA50SlopeBonus(call.args.technicalIndicators.ma50Slope) = -15
  /\ call.result.ma50SlopeBonus = 0
  /\ call.result.ma50ScoreAdjusted = 70

\* C20: the market-wide composite (in sevenths of a point) is the weighted
\* mean of the volatility and the sentiment score with weights 0.20/0.35 and
\* 0.15/0.35 when sentiment is present, the volatility score alone when it
\* is unavailable, and in both cases a number in [0, 100]
C20_MarketCompositeIsWeightedMean ==
  (call.fn = "calculateMarketCSS" /\ call.result # Unsettled) =>
    /\ call.result.marketCSS >= 0
    /\ call.result.marketCSS <= 7 * 100
    /\ call.result.marketCSS =
         IF call.args.fearGreedIndex.t = "null"
           THEN 7 * calculateVIXScore(call.args.vix)
           ELSE 4 * calculateVIXScore(call.args.vix)
                + 3 * calculateFearGreedScore(call.args.fearGreedIndex)

\* C21: an asset whose multiplier is non-finite (NaN, +Infinity, -Infinity)
\* is allocated as if its multiplier were 1.0 (its rounded base amount, which
\* lies within its bounds), and neither its amount nor the total is NaN
C21_NonFiniteMultiplierCountsAsOne ==
  (call.fn = "calculateAllocations" /\ call.result # Unsettled) =>
    \A k \in 1..Len(call.args.analyses) :
      call.args.analyses[k].cssBreakdown.multiplier.t \in {"nan", "inf"} =>
        /\ ~call.result.totalIsNaN
        /\ \E j \in 1..Len(call.result.allocations) :
             LET a == call.result.allocations[j]
             IN /\ a.symbol = call.args.analyses[k].symbol
                /\ ~a.amountIsNaN
                /\ a.amount = a.baseAmount
                /\ a.multiplier = 10
                /\ a.multiplierInfinite = 0

\* C22: the allocation list of a report is the stable descending sort by
\* amount of the successfully analysed assets taken in configured order: it
\* is non-increasing by amount, equal amounts keep their input order, and it
\* is determined by the per-asset results alone, whatever the order in which
\* the concurrent fetches completed
C22_AllocationsStablySortedByAmount ==
  report.returned =>
    LET A == report.allocations
        Pos(sym) == CHOOSE i \in Assets : config.defaultStocks[i] = sym
        scored == { i \in Assets : analysis[i].ok }
    IN /\ Len(A) = Cardinality(scored)
       /\ { A[j].symbol : j \in 1..Len(A) } =
            { config.defaultStocks[i] : i \in scored }
       /\ \A j, k \in 1..Len(A) :
            j < k =>
              /\ A[j].amount >= A[k].amount
              /\ A[j].amount = A[k].amount =>
                   Pos(A[j].symbol) < Pos(A[k].symbol)

\* a report whose two assets tie in amount and keep their configured order
C22_Witness ==
  /\ report.returned
  /\ Len(report.allocations) = 2
  /\ report.allocations[1].amount = report.allocations[2].amount
  /\ report.allocations[1].symbol = config.defaultStocks[1]
  /\ report.allocations[2].symbol = config.defaultStocks[2]

\* C23: the volatility-index fetch and the sentiment fetch run concurrently:
\* both are started before either has completed, so while the volatility
\* fetch is still pending the sentiment fetch has been started
C23_MarketFetchesRunConcurrently ==
  (VIXFetchStarted /\ vixResult = Unsettled) => FearGreedFetchStarted

\* C24: all per-asset analyses are started in the same step, none waiting
\* for another; the step that settles one asset (scored, or excluded after a
\* failure) leaves every sibling's fetches, stage and result as they were, so
\* a slow or failed asset neither delays nor cancels a sibling; an asset is
\* excluded only when one of its own steps failed and is scored otherwise
C24_SiblingAnalysesIndependent ==
  [][ /\ \A i, j \in Assets : (stage'[i] = "Pending") <=> (stage'[j] = "Pending")
      /\ \A i \in Assets :
           (stage[i] = "Fetching" /\ stage'[i] # "Fetching") =>
             /\ stage'[i] = IF analysis'[i].ok THEN "Scored" ELSE "Excluded"
             /\ ~analysis'[i].ok =>
                  analysis'[i].failedAt \in {"fetch", "indicators", "scoring"}
             /\ \A j \in Assets \ {i} :
                  /\ stage'[j] = stage[j]
                  /\ quote'[j] = quote[j]
                  /\ hist'[j] = hist[j]
                  /\ analysis'[j] = analysis[j] ]_vars

\* the first asset's fetches are still pending (slow) while the second one
\* has already been scored
C24_Witness ==
  /\ Len(config.defaultStocks) = 2
  /\ stage[1] = "Fetching"
  /\ quote[1] = Unsettled
  /\ hist[1] = Unsettled
  /\ stage[2] = "Scored"
  /\ analysis[2].ok

C26_DeliveryAndPersistenceIndependent ==
  (call.fn \in {"analyzeRoute", "runScheduledAnalysis"}
     /\ call.result # Unsettled) =>
    /\ call.args.emailWanted => call.result.emailAttempted
    /\ call.args.dbWanted => call.result.dbAttempted
    /\ call.result.report
    /\ call.fn = "analyzeRoute" =>
         /\ call.result.httpStatus = 200
         /\ call.result.success
         /\ call.result.savedToDatabase =
              (call.args.dbWanted /\ call.args.db = "ok")
         /\ call.result.emailSent =
              (call.args.emailWanted /\ call.args.email = "ok")
    /\ call.fn = "runScheduledAnalysis" => call.result.status = "return"

\* the HTTP path with sendReport throwing: the save is still made and the
\* response carries the report
C26_Witness ==
  /\ call.fn = "analyzeRoute"
  /\ call.result # Unsettled
  /\ call.args.emailWanted /\ call.args.dbWanted
  /\ call.args.email = "send_throws"
  /\ call.args.db = "ok"
  /\ call.result.emailAttempted /\ ~call.result.emailSent
  /\ call.result.dbAttempted /\ call.result.savedToDatabase
  /\ call.result.report

\* C27: an invocation whose configuration is invalid (base budget not
\* greater than 0, or no asset) is rejected before any network call: neither
\* the volatility, nor the sentiment, nor a quote or history fetch is started
C27_InvalidConfigMakesNoNetworkCall ==
  ~validateConfig(config) =>
    /\ ~VIXFetchStarted
    /\ ~FearGreedFetchStarted
    /\ \A i \in Assets : stage[i] = "Pending"
    /\ ~report.returned

\* C28: calculateIndicators returns, for a price series of any length, the
\* empty and the one-element series included, a complete set of indicators
\* without raising: every field is a number, the length-determined fallbacks are
\* RSI 50 below 15 closes, band width 10 below 20, ATR 0 below 2 and averages
\* of 0 for the empty series, and a series of fewer than 100 closes has
\* ma50Slope = 0 exactly.
C28_IndicatorsDegradeGracefully ==
  (call.fn = "calculateIndicators" /\ call.result # Unsettled) =>
    /\ call.result.status = "return"
    /\ \A f \in {"rsi", "bbWidth", "atr", "ma20", "ma50", "ma50Slope"} :
         call.result[f] \in Int
    /\ call.result.dataSource \in {"technicalindicators", "custom-fallback"}
    /\ (call.args.n < 100 => call.result.ma50Slope = 0)
    /\ (call.args.n < 15 => call.result.rsi = 50)
    /\ (call.args.n < 20 => call.result.bbWidth = 10)
    /\ (call.args.n < 2 => call.result.atr = 0)
    /\ (call.args.n = 0 => call.result.ma20 = 0 /\ call.result.ma50 = 0)

\* the empty series and a 99-close series with a falling average were analysed
C28_Witness ==
  /\ call.fn = "calculateIndicators"
  /\ call.result # Unsettled
  /\ call.args.n \in {0, 99}
  /\ call.args.shape.ma50Slope < 0
  /\ call.result.status = "return"
  /\ call.result.ma50Slope = 0

\* C29: whatever the order in which the fetches of the assets settle, the
\* market-data provenance recorded in an asset's analysis is the label of the
\* tier that produced that asset's own quote, and the provenance summary of
\* the report is derived from the analyses of the reported assets alone
\* (simulated if one of their quotes is synthetic, else axios-fallback if one
\* is from the secondary tier, else yahoo-finance2; custom-fallback exactly
\* if one of their indicator sets is) - never from the field lastDataSource
\* that every call of the market data service overwrites.
C29_ProvenanceFromOwnResults ==
  LET LabelOf(tier) == IF tier = "primary" THEN "yahoo-finance2"
                       ELSE IF tier = "secondary" THEN "axios-fallback"
                       ELSE "simulated"
      Analysed == { i \in Assets : analysis[i].ok }
      Tiers == { analysis[i].marketData.producedBy : i \in Analysed }
  IN /\ \A i \in Analysed :
          analysis[i].marketData.dataSource
            = LabelOf(analysis[i].marketData.producedBy)
     /\ report.returned =>
          /\ report.dataSourceStatus.marketDataSource
               = IF "synthetic" \in Tiers THEN "simulated"
                 ELSE IF "secondary" \in Tiers THEN "axios-fallback"
                 ELSE "yahoo-finance2"
          /\ report.dataSourceStatus.indicatorSource = "custom-fallback"
               <=> \E i \in Analysed :
                     analysis[i].technicalIndicators.dataSource
                       = "custom-fallback"

\* a report was returned after another call had overwritten lastDataSource:
\* an analysed asset's quote came from the primary tier, the shared field
\* says simulated, and the summary follows the analyses
C29_Witness ==
  /\ report.returned
  /\ lastDataSource = "simulated"
  /\ \A i \in Assets : analysis[i].ok
  /\ \E i \in Assets : analysis[i].marketData.dataSource = "yahoo-finance2"
  /\ report.dataSourceStatus.marketDataSource = "yahoo-finance2"

\* C30: after any sequence of saveAnalysisReport calls, two saves for one
\* date whose query, delete and insert steps interleave included, the table
\* weeklySnapshots holds at most one snapshot for each date, and it is the
\* snapshot of the save that inserted last for that date.
C30_OneSnapshotPerDate ==
  \A d \in Dates :
    \A snap \in weeklySnapshots :
      snap.date = d =>
        /\ \A other \in weeklySnapshots : other.date = d => other = snap
        /\ snap.id = savedLast[d]

=============================================================================
